---- MODULE Spec2Model ----
(***************************************************************************)
(* Model of codexia_remote.client.RemoteBridgeClient (client.py): the      *)
(* correlation client that forwards one command per WebSocket connection   *)
(* and waits for the frame carrying its identifier.                        *)
(*                                                                         *)
(* JSON text is a sequence of tokens (punctuation, numerals, words); the   *)
(* encoder and the decoder below work on those tokens, so that the double  *)
(* encoding of the result envelope is a real escape/unescape round trip.   *)
(***************************************************************************)
EXTENDS Integers, Sequences, FiniteSets, TLC

\* ------------------------------------------------------------------------
\* Bounds of the model
\* ------------------------------------------------------------------------
\* number of invoke / fetch_status calls made on the client
MaxCalls == 2
\* the configured timeout (settings.request_timeout), in clock ticks
Timeout == 2

Calls == 1..MaxCalls

\* ------------------------------------------------------------------------
\* JSON values (what json.loads returns / json.dumps accepts)
\* ------------------------------------------------------------------------
Null == [t |-> "null"]
Num(n) == [t |-> "num", n |-> n]
Str(s) == [t |-> "str", s |-> s]
Map(m) == [t |-> "map", m |-> m]
EmptyMap == Map([k \in {} |-> Null])

\* Python truthiness of a decoded value: None, 0, "" and {} are falsy
Falsy(v) ==
  \/ v.t = "null"
  \/ v.t = "num" /\ v.n = 0
  \/ v.t = "str" /\ v.s = << >>
  \/ v.t = "map" /\ DOMAIN v.m = {}

\* dict.get(key, default)
Get(v, key, default) == IF key \in DOMAIN v.m THEN v.m[key] ELSE default

\* ------------------------------------------------------------------------
\* json.dumps
\* ------------------------------------------------------------------------
Q == "\""
BS == "\\"
\* insertion order of the keys of the mappings that occur in the protocol
KeyOrder == <<"id", "cmd", "args", "option", "status", "payload", "x">>

RECURSIVE Escape(_)
Escape(s) ==
  IF s = << >> THEN << >>
  ELSE (IF Head(s) \in {Q, BS} THEN <<BS, Head(s)>> ELSE <<Head(s)>>)
       \o Escape(Tail(s))

RECURSIVE Dumps(_)
RECURSIVE DumpMembers(_, _, _)
DumpMembers(m, i, first) ==
  IF i > Len(KeyOrder) THEN << >>
  ELSE IF KeyOrder[i] \in DOMAIN m
       THEN (IF first THEN << >> ELSE <<",">>)
            \o <<Q, KeyOrder[i], Q, ":">> \o Dumps(m[KeyOrder[i]])
            \o DumpMembers(m, i + 1, FALSE)
       ELSE DumpMembers(m, i + 1, first)

Dumps(v) ==
  CASE v.t = "null" -> <<"null">>
    [] v.t = "num" -> <<ToString(v.n)>>
    [] v.t = "str" -> <<Q>> \o Escape(v.s) \o <<Q>>
    [] v.t = "map" -> <<"{">> \o DumpMembers(v.m, 1, TRUE) \o <<"}">>

\* ------------------------------------------------------------------------
\* json.loads: a recursive-descent parser over the tokens.  A parse result
\* is [ok, val, next]; Loads fails (json.JSONDecodeError) unless the whole
\* text is one value.
\* ------------------------------------------------------------------------
MaxNum == 9
Numerals == {ToString(n) : n \in 0..MaxNum}
NumOf(tok) == CHOOSE n \in 0..MaxNum : ToString(n) = tok
Fail == [ok |-> FALSE, val |-> Null, next |-> 0]
Ok(v, n) == [ok |-> TRUE, val |-> v, next |-> n]

RECURSIVE ScanString(_, _, _)
ScanString(txt, j, acc) ==
  IF j > Len(txt) THEN Fail
  ELSE IF txt[j] = Q THEN Ok(Str(acc), j + 1)
  ELSE IF txt[j] = BS
       THEN IF j + 1 <= Len(txt) /\ txt[j + 1] \in {Q, BS}
            THEN ScanString(txt, j + 2, Append(acc, txt[j + 1]))
            ELSE Fail
  ELSE ScanString(txt, j + 1, Append(acc, txt[j]))

RECURSIVE ParseValue(_, _)
RECURSIVE ParseMembers(_, _, _)
ParseMembers(txt, i, m) ==
  IF i > Len(txt) \/ txt[i] # Q THEN Fail
  ELSE LET k == ScanString(txt, i + 1, << >>) IN
       IF ~k.ok \/ Len(k.val.s) # 1 \/ k.next > Len(txt) \/ txt[k.next] # ":"
       THEN Fail
       ELSE LET v == ParseValue(txt, k.next + 1) IN
            IF ~v.ok \/ v.next > Len(txt) THEN Fail
            ELSE LET m2 == [x \in DOMAIN m \cup {k.val.s[1]} |->
                              IF x = k.val.s[1] THEN v.val ELSE m[x]] IN
                 IF txt[v.next] = "}" THEN Ok(Map(m2), v.next + 1)
                 ELSE IF txt[v.next] = "," THEN ParseMembers(txt, v.next + 1, m2)
                 ELSE Fail

ParseValue(txt, i) ==
  IF i > Len(txt) THEN Fail
  ELSE IF txt[i] = "null" THEN Ok(Null, i + 1)
  ELSE IF txt[i] \in Numerals THEN Ok(Num(NumOf(txt[i])), i + 1)
  ELSE IF txt[i] = Q THEN ScanString(txt, i + 1, << >>)
  ELSE IF txt[i] = "{"
       THEN IF i + 1 <= Len(txt) /\ txt[i + 1] = "}"
            THEN Ok(EmptyMap, i + 2)
            ELSE ParseMembers(txt, i + 1, [k \in {} |-> Null])
  ELSE Fail

Loads(txt) ==
  LET r == ParseValue(txt, 1) IN
  IF r.ok /\ r.next = Len(txt) + 1 THEN r ELSE Fail

\* ------------------------------------------------------------------------
\* What the callers and the peer can do
\* ------------------------------------------------------------------------
Success == Str(<<"success">>)
StatusCommand == "get_remote_ui_status"

\* (command, args, options) of the invoke calls; Null is Python's None
Invocations ==
  { <<StatusCommand, Null, Null>>,
    <<"run", EmptyMap, Map([x |-> Num(1)])>> }

\* result envelopes the peer may answer with
Envelopes ==
  { Map([status |-> Success, payload |-> Map([x |-> Num(1)])]),
    Map([status |-> Str(<<"error">>), payload |-> Str(<<"bad command">>)]),
    Map([payload |-> Map([x |-> Num(1)])]),
    Map([status |-> Success, payload |-> Null]),
    Map([status |-> Success, payload |-> Num(0)]),
    Map([status |-> Null, payload |-> Str(<<"bad command">>)]),
    Map([status |-> Success]),
    Map([payload |-> Null]),
    EmptyMap }

\* the "payload" member of a response frame: a structured envelope, the JSON
\* text of an envelope, null, text that is not JSON, or a number
FramePayloads ==
  Envelopes \cup {Str(Dumps(e)) : e \in Envelopes}
            \cup {Null, Str(<<"oops">>), Num(5)}

\* raw frames the peer may put on a connection
PeerFrames ==
  {Dumps(Map([id |-> Num(i), payload |-> p])) : i \in Calls, p \in FramePayloads}
    \cup {Dumps(Map([id |-> Num(i)])) : i \in Calls}
    \cup {Dumps(Map([payload |-> Map([status |-> Success, payload |-> Null])])),
          Dumps(Num(5)), <<"oops">>}

\* ------------------------------------------------------------------------
\* Outcomes of a call
\* ------------------------------------------------------------------------
NoOutcome == [kind |-> "none", value |-> Null, command |-> "", payload |-> Null]
Returned(v) == [kind |-> "return", value |-> v, command |-> "", payload |-> Null]
Raised(k) == [kind |-> k, value |-> Null, command |-> "", payload |-> Null]
\* RemoteInvocationError(command, payload)
RemoteInvocationError(cmd, p) ==
  [kind |-> "RemoteInvocationError", value |-> Null, command |-> cmd, payload |-> p]
Continue == [kind |-> "continue", value |-> Null, command |-> "", payload |-> Null]

\* ------------------------------------------------------------------------
\* RemoteBridgeClient.invoke, the pure parts
\* ------------------------------------------------------------------------
\* a call that draws two identifiers
NextIdTwice(n) == n + 2

\* a counter that is re-created for every call instead of kept on the client
NextIdReset(n) == 1

\* next(self._id_sequence): the counter after the draw
NextId(n) == n + 1

\* an envelope that replaces omitted args and options by empty mappings
RequestEnvelopeDefaults(rid, cmd, a, o) ==
  Map([id |-> Num(rid), cmd |-> Str(<<cmd>>),
       args |-> IF a = Null THEN EmptyMap ELSE a,
       option |-> IF o = Null THEN EmptyMap ELSE o])

\* payload = {"id": request_id, "cmd": command, "args": args, "option": options}
RequestEnvelope(rid, cmd, a, o) ==
  Map([id |-> Num(rid), cmd |-> Str(<<cmd>>), args |-> a, option |-> o])

\* a loop that discards every frame, the matching ones included
IdMatchesNever(response, rid) == FALSE

\* a loop that takes the first frame as the answer, whatever its identifier
IdMatchesAny(response, rid) == TRUE

\* response.get("id") != request_id is false
IdMatches(response, rid) == Get(response, "id", Null) = Num(rid)

\* a test for the error status instead of the success status
IsNotError(status) == status # Str(<<"error">>)

\* status == "success"
IsSuccess(status) == status = Success

\* a success path that hands out an empty mapping for a null payload
ClassifyNullToEmpty(envelope, cmd) ==
  LET e == IF Falsy(envelope) THEN EmptyMap ELSE envelope IN
  IF e.t # "map" THEN Raised("AttributeError")
  ELSE IF IsSuccess(Get(e, "status", Success))
       THEN Returned(IF Get(e, "payload", Null) = Null
                     THEN EmptyMap ELSE Get(e, "payload", Null))
       ELSE RemoteInvocationError(cmd, Get(e, "payload", Null))

\* a success path that returns the envelope instead of its payload
ClassifyWholeEnvelope(envelope, cmd) ==
  LET e == IF Falsy(envelope) THEN EmptyMap ELSE envelope IN
  IF e.t # "map" THEN Raised("AttributeError")
  ELSE IF Get(e, "status", Success) = Success
       THEN Returned(e)
       ELSE RemoteInvocationError(cmd, Get(e, "payload", Null))

\* lines 47-50: classify the decoded envelope
Classify(envelope, cmd) ==
  LET e == IF Falsy(envelope) THEN EmptyMap ELSE envelope IN
  IF e.t # "map" THEN Raised("AttributeError")
  ELSE IF IsSuccess(Get(e, "status", Success))
       THEN Returned(Get(e, "payload", Null))
       ELSE RemoteInvocationError(cmd, Get(e, "payload", Null))

\* a loop that classifies the payload member as it arrived, string or not
UnwrapNoDecode(response, cmd) ==
  Classify(Get(response, "payload", Null), cmd)

\* lines 43-45: the payload of the frame, decoded once more when it is a string
Unwrap(response, cmd) ==
  LET envelope == Get(response, "payload", Null) IN
  IF envelope.t = "str"
  THEN LET d == Loads(envelope.s) IN
       IF d.ok THEN Classify(d.val, cmd) ELSE Raised("JSONDecodeError")
  ELSE Classify(envelope, cmd)

\* lines 39-50: one iteration of the receive loop on the frame raw
HandleFrame(raw, rid, cmd) ==
  LET r == Loads(raw) IN
  IF ~r.ok THEN Raised("JSONDecodeError")
  ELSE IF r.val.t # "map" THEN Raised("AttributeError")
  ELSE IF ~IdMatches(r.val, rid) THEN Continue
  ELSE Unwrap(r.val, cmd)

\* HandleFrame on the frames of the peer, computed once (@@ makes TLC build
\* the table instead of re-evaluating the decoder at every use)
Handled ==
  [a \in PeerFrames \X Calls \X {StatusCommand, "run"} |->
     HandleFrame(a[1], a[2], a[3])] @@ << >>
Handle(raw, rid, cmd) ==
  IF <<raw, rid, cmd>> \in DOMAIN Handled
  THEN Handled[<<raw, rid, cmd>>] ELSE HandleFrame(raw, rid, cmd)

\* a fetch_status that hands the result of invoke through
OrEmptyMissing(result) == result

\* fetch_status: result or {}
OrEmpty(result) == IF Falsy(result) THEN EmptyMap ELSE result

\* a wait that gives up one tick early
TimedOutEarly(w, t) == w >= t - 1

\* asyncio.wait_for(..., timeout=t) gives up when the wait has lasted t
TimedOut(w, t) == w = t

\* app.py: the answers of the routes
NoResponse == [code |-> 0, body |-> Null]
HttpError(code) == [code |-> code, body |-> Null]
HttpOk(body) == [code |-> 200, body |-> body]

\* a handler whose generic except clause comes first
InvokeRouteGenericFirst(out) ==
  CASE out.kind = "return" ->
         HttpOk(Map([status |-> Success, payload |-> out.value]))
    [] out.kind = "CancelledError" -> NoResponse
    [] OTHER -> HttpError(502)

\* app.py invoke (POST /invoke); CancelledError is no Exception and is not
\* answered
InvokeRoute(out) ==
  CASE out.kind = "return" ->
         HttpOk(Map([status |-> Success, payload |-> out.value]))
    [] out.kind = "RemoteInvocationError" -> HttpError(500)
    [] out.kind = "TimeoutError" -> HttpError(504)
    [] out.kind = "CancelledError" -> NoResponse
    [] OTHER -> HttpError(502)

\* app.py remote_status (GET /remote/status), out is how fetch_status ended
RemoteStatusRoute(out) ==
  CASE out.kind = "return" -> HttpOk(Map([status |-> out.value]))
    [] out.kind = "CancelledError" -> NoResponse
    [] OTHER -> HttpError(502)

\* ------------------------------------------------------------------------
\* State
\* ------------------------------------------------------------------------
VARIABLES
  config,       \* self._ws_url and self._timeout
  id_sequence,  \* self._id_sequence: the value the next draw returns
  pc,           \* where each call is: idle, connecting, sending, receiving, done
  op,           \* the public operation of the call: invoke or fetch_status
  request_id,   \* the identifier drawn by the call (0: none yet)
  command,      \* the command argument of the call
  args,         \* the args argument of the call (Null: omitted)
  options,      \* the options argument of the call (Null: omitted)
  payload,      \* the request envelope built by the call
  conn,         \* the connection opened by the call (0: none)
  nconn,        \* number of connections opened so far
  open,         \* connections inside their "async with" block
  sent,         \* frames sent by the call on its connection
  lastId,       \* response.get("id") of the last frame the loop decoded
  waited,       \* ticks spent in the current wait_for
  elapsed,      \* ticks since the request was sent (the first wait began),
                \* kept after the call only when it timed out
  frame,        \* the raw frame on which the call returned or raised
  outcome,      \* how invoke ended
  fetched,      \* how fetch_status ended
  http          \* the answer of the route of app.py that made the call

vars == <<config, id_sequence, pc, op, request_id, command, args, options,
          payload, conn, nconn, open, sent, lastId, waited, elapsed, frame,
          outcome, fetched, http>>

MaxElapsed == Timeout + 1
\* settings.remote_ws_url
WsUrl == "ws://127.0.0.1:7420/remote_ui_ws"
NoFrame == << >>
NoId == [t |-> "none"]
InProgress == {"connecting", "sending", "receiving"}

Init ==
  /\ config = [ws_url |-> WsUrl, timeout |-> Timeout]
  /\ id_sequence = 1
  /\ pc = [c \in Calls |-> "idle"]
  /\ op = [c \in Calls |-> "none"]
  /\ request_id = [c \in Calls |-> 0]
  /\ command = [c \in Calls |-> ""]
  /\ args = [c \in Calls |-> Null]
  /\ options = [c \in Calls |-> Null]
  /\ payload = [c \in Calls |-> Null]
  /\ conn = [c \in Calls |-> 0]
  /\ nconn = 0
  /\ open = {}
  /\ sent = [c \in Calls |-> << >>]
  /\ lastId = [c \in Calls |-> NoId]
  /\ waited = [c \in Calls |-> 0]
  /\ elapsed = [c \in Calls |-> 0]
  /\ frame = [c \in Calls |-> NoFrame]
  /\ outcome = [c \in Calls |-> NoOutcome]
  /\ fetched = [c \in Calls |-> NoOutcome]
  /\ http = [c \in Calls |-> NoResponse]

\* ------------------------------------------------------------------------
\* Helpers of the actions
\* ------------------------------------------------------------------------
\* a client that keeps one connection and shares it between the calls
SharedConnection(n) == 1

\* websockets.connect(...).__aenter__: a new connection for this call
NewConnection(n) == n + 1

\* a connection object that is used without having been entered
NeverOpened(o, k) == o

\* websockets.connect(...).__aenter__: the connection k is open
OpenSession(o, k) == o \cup {k}

\* a connection that is opened without a context manager and never closed
LeakSession(o, k) == o

\* __aexit__ of the "async with" block: the connection k is closed
CloseSession(o, k) == o \ {k}

\* a send that is repeated once
SendTwice(s, p) == Append(Append(s, Dumps(p)), Dumps(p))

\* connection.send(json.dumps(payload))
SendRequest(s, p) == Append(s, Dumps(p))

\* what fetch_status gives its caller when invoke ended with out
FetchOutcome(out) ==
  IF out.kind = "return" THEN Returned(OrEmpty(out.value)) ELSE out

\* invoke ends with out: the exception or the return leaves the "async with"
\* block, the locals of the coroutine are gone
Finish(c, out, raw) ==
  /\ pc' = [pc EXCEPT ![c] = "done"]
  /\ outcome' = [outcome EXCEPT ![c] = out]
  /\ fetched' = [fetched EXCEPT ![c] =
                   IF op[c] = "fetch_status" THEN FetchOutcome(out) ELSE NoOutcome]
  /\ http' = [http EXCEPT ![c] =
                IF op[c] = "fetch_status"
                THEN RemoteStatusRoute(FetchOutcome(out)) ELSE InvokeRoute(out)]
  /\ frame' = [frame EXCEPT ![c] = raw]
  /\ open' = CloseSession(open, conn[c])
  /\ lastId' = [lastId EXCEPT ![c] = NoId]
  /\ waited' = [waited EXCEPT ![c] = 0]
  /\ elapsed' = [elapsed EXCEPT ![c] =
                   IF out.kind = "TimeoutError" THEN elapsed[c] ELSE 0]

\* ------------------------------------------------------------------------
\* Actions
\* ------------------------------------------------------------------------
\* lines 32-33: draw the identifier and build the envelope (no await between)
Begin(c, o, cmd, a, opts) ==
  /\ pc[c] = "idle"
  /\ \A d \in Calls : d < c => pc[d] # "idle"
  /\ request_id' = [request_id EXCEPT ![c] = id_sequence]
  /\ id_sequence' = NextId(id_sequence)
  /\ op' = [op EXCEPT ![c] = o]
  /\ command' = [command EXCEPT ![c] = cmd]
  /\ payload' = [payload EXCEPT ![c] = RequestEnvelope(id_sequence, cmd, a, opts)]
  /\ pc' = [pc EXCEPT ![c] = "connecting"]
  /\ args' = [args EXCEPT ![c] = a]
  /\ options' = [options EXCEPT ![c] = opts]
  /\ UNCHANGED <<config, conn, nconn, open, sent, lastId, waited, elapsed,
                 frame, outcome, fetched, http>>

\* invoke(command, args, options)
Invoke(c) ==
  \E i \in Invocations : Begin(c, "invoke", i[1], i[2], i[3])

\* fetch_status(): invoke("get_remote_ui_status")
FetchStatus(c) == Begin(c, "fetch_status", StatusCommand, Null, Null)

\* line 35: the connection is established
Connect(c) ==
  /\ pc[c] = "connecting"
  /\ nconn' = NewConnection(nconn)
  /\ conn' = [conn EXCEPT ![c] = NewConnection(nconn)]
  /\ open' = OpenSession(open, NewConnection(nconn))
  /\ pc' = [pc EXCEPT ![c] = "sending"]
  /\ UNCHANGED <<config, id_sequence, op, request_id, command, args, options,
                 payload, sent, lastId, waited, elapsed, frame, outcome,
                 fetched, http>>

\* line 35: the endpoint is unreachable or the handshake fails; whatever
\* websockets raises for a transport fault (OSError, InvalidHandshake,
\* ConnectionClosed) passes through invoke and is called ConnectionError here
ConnectFail(c) ==
  /\ pc[c] = "connecting"
  /\ Finish(c, Raised("ConnectionError"), NoFrame)
  /\ UNCHANGED <<config, id_sequence, op, request_id, command, args, options,
                 payload, conn, nconn, sent>>

\* line 36: the request is sent, the first wait begins
Send(c) ==
  /\ pc[c] = "sending"
  /\ sent' = [sent EXCEPT ![c] = SendRequest(sent[c], payload[c])]
  /\ pc' = [pc EXCEPT ![c] = "receiving"]
  /\ waited' = [waited EXCEPT ![c] = 0]
  /\ elapsed' = [elapsed EXCEPT ![c] = 0]
  /\ UNCHANGED <<config, id_sequence, op, request_id, command, args, options,
                 payload, conn, nconn, open, lastId, frame, outcome, fetched,
                 http>>

\* lines 36, 38: the connection drops while sending or waiting
Drop(c) ==
  /\ pc[c] \in {"sending", "receiving"}
  /\ Finish(c, Raised("ConnectionError"), NoFrame)
  /\ UNCHANGED <<config, id_sequence, op, request_id, command, args, options,
                 payload, conn, nconn, sent>>

\* lines 38-50: recv() yields the frame raw before the wait times out
Recv(c, raw) ==
  /\ pc[c] = "receiving"
  /\ LET out == Handle(raw, request_id[c], command[c]) IN
     IF out.kind = "continue"
     THEN /\ lastId' = [lastId EXCEPT ![c] = Get(Loads(raw).val, "id", Null)]
          /\ waited' = [waited EXCEPT ![c] = 0]
          /\ UNCHANGED <<pc, outcome, fetched, http, frame, open, elapsed>>
     ELSE Finish(c, out, raw)
  /\ UNCHANGED <<config, id_sequence, op, request_id, command, args, options,
                 payload, conn, nconn, sent>>

\* line 38: wait_for gives up after self._timeout
TimeoutFire(c) ==
  /\ pc[c] = "receiving"
  /\ TimedOut(waited[c], config.timeout)
  /\ Finish(c, Raised("TimeoutError"), NoFrame)
  /\ UNCHANGED <<config, id_sequence, op, request_id, command, args, options,
                 payload, conn, nconn, sent>>

\* the caller cancels the task while it is suspended in an await
Cancel(c) ==
  /\ pc[c] \in InProgress
  /\ Finish(c, Raised("CancelledError"), NoFrame)
  /\ UNCHANGED <<config, id_sequence, op, request_id, command, args, options,
                 payload, conn, nconn, sent>>

\* one unit of time passes; no wait_for outlives its timeout
Tick ==
  /\ \E c \in Calls : pc[c] = "receiving"
  /\ \A c \in Calls : pc[c] = "receiving" => waited[c] < config.timeout
  /\ waited' = [c \in Calls |->
                  IF pc[c] = "receiving" THEN waited[c] + 1 ELSE waited[c]]
  /\ elapsed' = [c \in Calls |->
                   IF pc[c] = "receiving" /\ elapsed[c] < MaxElapsed
                   THEN elapsed[c] + 1 ELSE elapsed[c]]
  /\ UNCHANGED <<config, id_sequence, pc, op, request_id, command, args,
                 options, payload, conn, nconn, open, sent, lastId, frame,
                 outcome, fetched, http>>

Next ==
  \/ \E c \in Calls : Invoke(c)
  \/ \E c \in Calls : FetchStatus(c)
  \/ \E c \in Calls : Connect(c)
  \/ \E c \in Calls : ConnectFail(c)
  \/ \E c \in Calls : Send(c)
  \/ \E c \in Calls : Drop(c)
  \/ \E c \in Calls : \E raw \in PeerFrames : Recv(c, raw)
  \/ \E c \in Calls : TimeoutFire(c)
  \/ \E c \in Calls : Cancel(c)
  \/ Tick

Spec == Init /\ [][Next]_vars

\* ------------------------------------------------------------------------
\* Properties
\* ------------------------------------------------------------------------
Begun(c) == pc[c] # "idle"
\* the identifier in the request envelope of call c
EnvelopeId(c) == payload[c].m.id.n
\* the identifier in the frame call c put on the wire
WireId(c) == Loads(sent[c][1]).val.m.id.n

\* C1: the identifiers placed in the request envelopes start at 1, are
\* strictly increasing in call order (calls begin in the order of Calls) and
\* are never repeated or reset, whatever the outcome of the earlier calls;
\* the frame on the wire carries the identifier of the envelope.
C1_IdentifiersIncrease ==
  /\ Begun(1) => EnvelopeId(1) = 1
  /\ \A c, d \in Calls : Begun(c) /\ Begun(d) /\ c < d => EnvelopeId(c) < EnvelopeId(d)
  /\ \A c \in Calls : Begun(c) => EnvelopeId(c) = request_id[c] /\ EnvelopeId(c) < id_sequence
  /\ \A c \in Calls : sent[c] # << >> => WireId(c) = EnvelopeId(c)

\* C1 witness: a call timed out and a later call has sent its request
C1_Witness ==
  \E c, d \in Calls :
    /\ c < d
    /\ outcome[c].kind = "TimeoutError"
    /\ sent[d] # << >> /\ WireId(d) = 2

\* C2 (as claimed): a call that fails with TimeoutError does so exactly when
\* the configured timeout has passed since its request was sent, also when
\* non-matching frames arrived during the wait.  (The clock starts with the
\* first wait, the latest reading of "the start of the call".)
C2_AbsoluteDeadline ==
  \A c \in Calls : outcome[c].kind = "TimeoutError" => elapsed[c] = Timeout

\* C3: the connection of a call is closed on every exit path of invoke; when
\* no invoke is in progress, no connection is open.
C3_SessionClosed ==
  /\ \A c \in Calls : pc[c] \notin {"sending", "receiving"} => conn[c] \notin open
  /\ (\A c \in Calls : pc[c] \notin InProgress) => open = {}
  /\ open \subseteq {conn[c] : c \in Calls}

\* C3 witness: one call returned and another timed out, both after opening
\* a connection, and nothing is open
C3_Witness ==
  \E c, d \in Calls :
    /\ outcome[c].kind = "return" /\ conn[c] # 0
    /\ outcome[d].kind = "TimeoutError" /\ conn[d] # 0
    /\ open = {}

\* ------------------------------------------------------------------------
\* What a frame says, read off the wire format (spec section 6)
\* ------------------------------------------------------------------------
\* raw is a JSON object
WellFormed(raw) == Loads(raw).ok /\ Loads(raw).val.t = "map"
\* the identifier of a well-formed frame (Null: none)
FrameId(raw) == Get(Loads(raw).val, "id", Null)
\* raw is a well-formed frame that is not addressed to the identifier rid
NonMatching(raw, rid) == WellFormed(raw) /\ FrameId(raw) # Num(rid)

\* C4: a frame whose identifier is not the one of the pending call is
\* discarded: no call returns or raises on such a frame, and a call that has
\* discarded one has no outcome, keeps nothing but the identifier it compared,
\* has sent nothing more and is still waiting on its open connection.
C4_NonMatchingDiscarded ==
  \A c \in Calls :
    /\ frame[c] # NoFrame => ~NonMatching(frame[c], request_id[c])
    /\ lastId[c] # NoId =>
         /\ lastId[c] # Num(request_id[c])
         /\ pc[c] = "receiving"
         /\ outcome[c] = NoOutcome
         /\ frame[c] = NoFrame
         /\ conn[c] \in open
         /\ Len(sent[c]) = 1

\* C4 witness: a call has discarded a frame addressed to another identifier
\* and is still waiting
C4_Witness ==
  \E c \in Calls :
    /\ pc[c] = "receiving"
    /\ lastId[c] \notin {NoId, Null}
    /\ lastId[c] # Num(request_id[c])
    /\ outcome[c] = NoOutcome

\* the payload member of a well-formed frame, decoded once more when it is a
\* string: the Result Envelope of the frame
HasEnvelope(raw) ==
  /\ WellFormed(raw)
  /\ LET p == Get(Loads(raw).val, "payload", Null) IN
     p.t = "str" => Loads(p.s).ok
ResultEnvelope(raw) ==
  LET p == Get(Loads(raw).val, "payload", Null) IN
  IF p.t = "str" THEN Loads(p.s).val ELSE p
\* the frame on which call c ended carried a Result Envelope that is a mapping
EndedOnEnvelope(c) ==
  /\ frame[c] # NoFrame
  /\ HasEnvelope(frame[c])
  /\ FrameId(frame[c]) = Num(request_id[c])
  /\ ResultEnvelope(frame[c]).t = "map"

\* C5: when the Result Envelope of the matching frame has status "success"
\* or no status member, invoke returns exactly the payload of that envelope
\* (None when it has none) and raises nothing.
C5_SuccessReturnsPayload ==
  \A c \in Calls :
    EndedOnEnvelope(c) =>
      LET e == ResultEnvelope(frame[c]) IN
      ("status" \notin DOMAIN e.m \/ e.m.status = Success) =>
        outcome[c] = Returned(IF "payload" \in DOMAIN e.m THEN e.m.payload ELSE Null)

\* C5 witness: a call returned {"x": 1} from an envelope without status that
\* arrived as a JSON string
C5_Witness ==
  \E c \in Calls :
    /\ EndedOnEnvelope(c)
    /\ Get(Loads(frame[c]).val, "payload", Null).t = "str"
    /\ "status" \notin DOMAIN ResultEnvelope(frame[c]).m
    /\ outcome[c] = Returned(Map([x |-> Num(1)]))

\* C6: when the Result Envelope of the matching frame has a status other
\* than "success", invoke raises RemoteInvocationError with the command of
\* this call and the payload of the envelope, and returns nothing.
C6_ErrorStatusRaises ==
  \A c \in Calls :
    EndedOnEnvelope(c) =>
      LET e == ResultEnvelope(frame[c]) IN
      ("status" \in DOMAIN e.m /\ e.m.status # Success) =>
        /\ outcome[c].kind = "RemoteInvocationError"
        /\ outcome[c].command = command[c]
        /\ outcome[c].payload = (IF "payload" \in DOMAIN e.m THEN e.m.payload ELSE Null)
        /\ outcome[c].value = Null

\* C6 witness: two calls with different commands failed on an error envelope
\* carrying "bad command", one with status "error" and one with status null
C6_Witness ==
  \E c, d \in Calls :
    /\ EndedOnEnvelope(c) /\ EndedOnEnvelope(d)
    /\ command[c] # command[d]
    /\ Get(ResultEnvelope(frame[c]), "status", Success) = Str(<<"error">>)
    /\ Get(ResultEnvelope(frame[d]), "status", Success) = Null
    /\ outcome[c] = RemoteInvocationError(command[c], Str(<<"bad command">>))
    /\ outcome[d] = RemoteInvocationError(command[d], Str(<<"bad command">>))

\* C7: under any interleaving of concurrent calls, no two calls have the same
\* identifier, each call has a connection of its own, and no call returns or
\* raises on a frame addressed to another call.
C7_ConcurrentCallsIsolated ==
  \A c, d \in Calls :
    c # d /\ Begun(c) /\ Begun(d) =>
      /\ request_id[c] # request_id[d]
      /\ EnvelopeId(c) # EnvelopeId(d)
      /\ conn[c] # 0 /\ conn[d] # 0 => conn[c] # conn[d]
      /\ frame[c] # NoFrame /\ WellFormed(frame[c]) =>
           /\ FrameId(frame[c]) = Num(request_id[c])
           /\ FrameId(frame[c]) # Num(request_id[d])

\* C7 witness: two calls were waiting at the same time; one has discarded a
\* frame addressed to the other and still waits, the other has returned
C7_Witness ==
  \E c, d \in Calls :
    /\ c # d
    /\ pc[c] = "receiving" /\ lastId[c] = Num(request_id[d])
    /\ outcome[d].kind = "return" /\ FrameId(frame[d]) = Num(request_id[d])
    /\ conn[c] # 0 /\ conn[d] # 0

\* C8 (as claimed): a call that fails, other than by cancellation, fails with
\* ConnectionError, TimeoutError or RemoteInvocationError and nothing else.
C8_ThreeFailureKinds ==
  \A c \in Calls :
    pc[c] = "done" =>
      outcome[c].kind \in {"return", "CancelledError", "ConnectionError",
                           "TimeoutError", "RemoteInvocationError"}

\* the payload member of a well-formed frame (NoId: the frame has none)
PayloadMember(raw) == Get(Loads(raw).val, "payload", NoId)
\* calls c and d ended on frames addressed to them with the same payload
SameAnswer(c, d) ==
  /\ frame[c] # NoFrame /\ frame[d] # NoFrame
  /\ WellFormed(frame[c]) /\ WellFormed(frame[d])
  /\ FrameId(frame[c]) = Num(request_id[c])
  /\ FrameId(frame[d]) = Num(request_id[d])
  /\ PayloadMember(frame[c]) = PayloadMember(frame[d])
\* an invoke("get_remote_ui_status") call without args and options
PlainStatusInvoke(d) ==
  /\ op[d] = "invoke"
  /\ payload[d] = RequestEnvelope(request_id[d], StatusCommand, Null, Null)
\* fetch_status call c relates to the outcome out of invoke as the claim says,
\* with norm(v) the result handed out for the value v returned by invoke
FetchAgrees(c, out, norm(_)) ==
  IF out.kind = "return"
  THEN fetched[c] = Returned(norm(out.value))
  ELSE fetched[c] = out
NullToEmpty(v) == IF v = Null THEN EmptyMap ELSE v
FalsyToEmpty(v) == IF Falsy(v) THEN EmptyMap ELSE v
FetchStatusAs(norm(_)) ==
  \A c \in Calls :
    op[c] = "fetch_status" =>
      /\ payload[c] = RequestEnvelope(request_id[c], StatusCommand, Null, Null)
      /\ sent[c] # << >> => Loads(sent[c][1]).val.m.args = Null
                            /\ Loads(sent[c][1]).val.m.option = Null
      /\ pc[c] = "done" =>
           /\ FetchAgrees(c, outcome[c], norm)
           /\ \A d \in Calls :
                PlainStatusInvoke(d) /\ SameAnswer(c, d) =>
                  FetchAgrees(c, outcome[d], norm)

\* C9 (as claimed): fetch_status is invoke("get_remote_ui_status") without
\* args and options, except that a null result becomes an empty mapping.
C9_NullBecomesEmpty == FetchStatusAs(NullToEmpty)

\* C9 (amended): fetch_status is invoke("get_remote_ui_status") without args
\* and options, except that every falsy result (None, 0, "", {}) becomes an
\* empty mapping; a failure of invoke is the failure of fetch_status.
C9_FalsyBecomesEmpty == FetchStatusAs(FalsyToEmpty)

\* C9 witness: for the same answer with a null payload an invoke call
\* returned None and a fetch_status call returned {}
C9_Witness ==
  \E c, d \in Calls :
    /\ op[c] = "fetch_status" /\ PlainStatusInvoke(d)
    /\ SameAnswer(c, d)
    /\ outcome[d] = Returned(Null)
    /\ fetched[c] = Returned(EmptyMap)

\* C10: a call opens one connection and sends one frame, its request
\* envelope; once it has ended (timeout, connection fault, remote error or
\* return) it stays ended and nothing more is sent or opened for it.
C10_OneSessionOneFrame ==
  /\ [](\A c \in Calls :
          /\ sent[c] \in {<< >>, <<Dumps(payload[c])>>}
          /\ pc[c] = "receiving" => Len(sent[c]) = 1
          /\ pc[c] \in {"idle", "connecting", "sending"} => sent[c] = << >>
          /\ pc[c] \in {"idle", "connecting"} => conn[c] = 0)
  /\ [](Cardinality({c \in Calls : conn[c] # 0}) = nconn)
  /\ [][\A c \in Calls :
          pc[c] = "done" =>
            /\ pc'[c] = "done"
            /\ sent'[c] = sent[c]
            /\ conn'[c] = conn[c]
            /\ outcome'[c] = outcome[c]]_vars

\* C10 witness: a call that sent its request has timed out, another one has
\* failed with a remote error, each with one frame sent
C10_Witness ==
  \E c, d \in Calls :
    /\ outcome[c].kind = "TimeoutError" /\ Len(sent[c]) = 1
    /\ outcome[d].kind = "RemoteInvocationError" /\ Len(sent[d]) = 1
    /\ nconn = 2

\* C11 (as claimed): a stream of non-matching frames cannot keep a call
\* waiting past its deadline: no call is still in its receive loop when more
\* than the configured timeout has passed since its request was sent.
C11_NoWaitPastDeadline ==
  \A c \in Calls : pc[c] = "receiving" => elapsed[c] <= config.timeout

\* the connection of call c has been opened and closed again
Closed(c) == conn[c] # 0 /\ conn[c] \notin open

\* C12: the events of a call come in the order draw, open, send, receive,
\* close: a connection exists only for a call that has its identifier, the
\* request is sent on the open connection and before any frame is read,
\* frames are read only from the open connection after the send, and after
\* the close the call sends and reads nothing and is over.
C12_OpenSendReceiveClose ==
  /\ [](\A c \in Calls :
          /\ conn[c] # 0 => request_id[c] # 0
          /\ sent[c] # << >> => conn[c] # 0
          /\ pc[c] = "sending" => conn[c] \in open /\ sent[c] = << >>
          /\ pc[c] = "receiving" => conn[c] \in open /\ sent[c] # << >>
          /\ (lastId[c] # NoId \/ frame[c] # NoFrame) => sent[c] # << >>
          /\ Closed(c) => pc[c] = "done")
  /\ [][\A c \in Calls :
          /\ sent'[c] # sent[c] => conn[c] \in open /\ frame[c] = NoFrame
                                   /\ lastId[c] = NoId
          /\ (frame'[c] # frame[c] \/ lastId'[c] \notin {lastId[c], NoId}) =>
               conn[c] \in open /\ sent[c] # << >>
          /\ Closed(c) => /\ Closed(c)'
                          /\ sent'[c] = sent[c]
                          /\ frame'[c] = frame[c]
                          /\ lastId'[c] = lastId[c]
                          /\ pc'[c] = "done"]_vars

\* C12 witness: a call has gone through open, send and the read of a
\* matching frame, and its connection is closed
C12_Witness ==
  \E c \in Calls :
    /\ Closed(c)
    /\ Len(sent[c]) = 1
    /\ frame[c] # NoFrame
    /\ elapsed[c] = 0 /\ outcome[c].kind = "return"

\* call c ended on a frame addressed to it whose payload member is a Result
\* Envelope as a structured mapping, call d on a frame addressed to it whose
\* payload member is the JSON text of that same envelope
StructuredAndEncoded(c, d) ==
  /\ frame[c] # NoFrame /\ frame[d] # NoFrame
  /\ WellFormed(frame[c]) /\ WellFormed(frame[d])
  /\ FrameId(frame[c]) = Num(request_id[c])
  /\ FrameId(frame[d]) = Num(request_id[d])
  /\ PayloadMember(frame[c]).t = "map"
  /\ PayloadMember(frame[d]) = Str(Dumps(PayloadMember(frame[c])))

\* C13: a matching frame that carries a Result Envelope as a mapping and a
\* matching frame that carries the JSON string encoding of the same envelope
\* give invoke the same outcome: the same returned value, or
\* RemoteInvocationError with the command of the call and the same payload.
C13_DoubleDecodingEquivalent ==
  \A c, d \in Calls :
    StructuredAndEncoded(c, d) =>
      /\ outcome[c].kind \in {"return", "RemoteInvocationError"}
      /\ outcome[d].kind = outcome[c].kind
      /\ outcome[d].value = outcome[c].value
      /\ outcome[d].payload = outcome[c].payload
      /\ outcome[c].kind = "RemoteInvocationError" =>
           outcome[c].command = command[c] /\ outcome[d].command = command[d]

\* C13 witness: one call raised RemoteInvocationError on a structured error
\* envelope and another raised it on the string encoding of that envelope
C13_Witness ==
  \E c, d \in Calls :
    /\ StructuredAndEncoded(c, d)
    /\ outcome[c].kind = "RemoteInvocationError"
    /\ outcome[d].kind = "RemoteInvocationError"
    /\ outcome[d].payload = Str(<<"bad command">>)

\* the request envelope call c put on the wire, decoded
OnWire(c) == Loads(sent[c][1])

\* C14: the request envelope sent by invoke(command, args, options) is
\* {id, cmd, args, option} with the identifier drawn for the call, its
\* command, and args and options as the caller gave them: omitted ones go
\* out as null, never as an empty mapping, and an empty mapping goes out as
\* an empty mapping.
C14_RequestEnvelopeUnchanged ==
  \A c \in Calls :
    sent[c] # << >> =>
      /\ OnWire(c).ok
      /\ OnWire(c).val = Map([id |-> Num(request_id[c]),
                              cmd |-> Str(<<command[c]>>),
                              args |-> args[c],
                              option |-> options[c]])
      /\ DOMAIN OnWire(c).val.m = {"id", "cmd", "args", "option"}
      /\ args[c] = Null => Get(OnWire(c).val, "args", EmptyMap) = Null
      /\ options[c] = Null => Get(OnWire(c).val, "option", EmptyMap) = Null
      /\ args[c] = EmptyMap => Get(OnWire(c).val, "args", Null) = EmptyMap

\* C14 witness: one call sent an envelope with omitted args and options,
\* another sent one with an empty mapping as args
C14_Witness ==
  \E c, d \in Calls :
    /\ sent[c] # << >> /\ sent[d] # << >>
    /\ args[c] = Null /\ options[c] = Null
    /\ args[d] = EmptyMap /\ options[d] # Null

\* call c ended on a well-formed frame that carries its identifier
EndedOnMatching(c) ==
  /\ frame[c] # NoFrame
  /\ WellFormed(frame[c])
  /\ FrameId(frame[c]) = Num(request_id[c])

\* C15: the first frame with the identifier of the call decides it: while
\* the loop is still reading, no frame with that identifier has been read;
\* on such a frame invoke returns or raises and the call is over; and once a
\* call has its outcome, no later frame changes the outcome or is read by it.
C15_FirstMatchingFrameDecides ==
  /\ [](\A c \in Calls :
          /\ pc[c] = "receiving" =>
                /\ outcome[c] = NoOutcome
                /\ frame[c] = NoFrame
                /\ lastId[c] # Num(request_id[c])
          /\ EndedOnMatching(c) =>
                /\ pc[c] = "done"
                /\ outcome[c].kind \in {"return", "RemoteInvocationError",
                                         "JSONDecodeError", "AttributeError"}
          /\ pc[c] = "done" <=> outcome[c] # NoOutcome)
  /\ [][\A c \in Calls :
          /\ frame'[c] # frame[c] => pc[c] = "receiving" /\ pc'[c] = "done"
          /\ pc[c] = "done" =>
                /\ pc'[c] = "done"
                /\ outcome'[c] = outcome[c]
                /\ frame'[c] = frame[c]
                /\ lastId'[c] = lastId[c]]_vars

\* C15 witness: two calls are over, each on a frame with its identifier,
\* one with a returned value and one with RemoteInvocationError
C15_Witness ==
  \E c, d \in Calls :
    /\ EndedOnMatching(c) /\ EndedOnMatching(d)
    /\ outcome[c].kind = "return"
    /\ outcome[d].kind = "RemoteInvocationError"

\* call c ended on a frame with its identifier whose payload member is null
\* or absent
EndedOnNoPayload(c) ==
  /\ EndedOnMatching(c)
  /\ PayloadMember(frame[c]) \in {NoId, Null}
\* call c ended on a frame with its identifier whose Result Envelope has a
\* null or absent payload and the status success or no status
EndedOnNullResult(c) ==
  /\ EndedOnEnvelope(c)
  /\ Get(ResultEnvelope(frame[c]), "payload", Null) = Null
  /\ Get(ResultEnvelope(frame[c]), "status", Success) = Success

\* C16: a matching frame whose payload is null or absent, or whose Result
\* Envelope has a null or absent payload with status success or absent,
\* completes the call: invoke returns null, raises nothing and does not
\* turn the null into an empty mapping; fetch_status does.
C16_NullPayloadReturnsNull ==
  \A c \in Calls :
    EndedOnNoPayload(c) \/ EndedOnNullResult(c) =>
      /\ outcome[c] = Returned(Null)
      /\ op[c] = "fetch_status" => fetched[c] = Returned(EmptyMap)
      /\ op[c] = "invoke" => fetched[c] = NoOutcome

\* C16 witness: an invoke call returned null on a frame without a payload
\* member and a fetch_status call ended on an envelope with a null payload
C16_Witness ==
  \E c, d \in Calls :
    /\ op[c] = "invoke" /\ EndedOnNoPayload(c)
    /\ PayloadMember(frame[c]) = NoId
    /\ outcome[c] = Returned(Null)
    /\ op[d] = "fetch_status" /\ EndedOnNullResult(d)
    /\ Get(ResultEnvelope(frame[d]), "payload", NoId) = Null

\* call c failed: it ended without a returned value
Failed(c) == pc[c] = "done" /\ outcome[c].kind # "return"

\* C17: every invoke call advances the identifier counter by exactly one,
\* whether it then fails to connect, times out, raises or returns; no call
\* changes the endpoint or the timeout of the client, so a call after a
\* failed one builds the request a fresh client would build, except for
\* the larger identifier.
C17_CounterAdvancesByOne ==
  /\ [](/\ id_sequence = 1 + Cardinality({c \in Calls : Begun(c)})
        /\ config = [ws_url |-> WsUrl, timeout |-> Timeout]
        /\ \A c \in Calls :
             Begun(c) =>
               /\ request_id[c] = Cardinality({d \in Calls : d < c}) + 1
               /\ payload[c] = Map([id |-> Num(request_id[c]),
                                    cmd |-> Str(<<command[c]>>),
                                    args |-> args[c], option |-> options[c]]))
  /\ [][/\ config' = config
        /\ IF \E c \in Calls : pc[c] = "idle" /\ pc'[c] # "idle"
           THEN id_sequence' = id_sequence + 1
           ELSE id_sequence' = id_sequence]_vars

\* C17 witness: the first call failed to open its connection, and the
\* second call drew the identifier 2 and returned
C17_Witness ==
  /\ Failed(1) /\ conn[1] = 0 /\ outcome[1].kind = "ConnectionError"
  /\ request_id[2] = 2 /\ outcome[2].kind = "return"
  /\ id_sequence = 3

\* the ways a call of the client fails (a cancelled request is no failure of
\* the client and gets no answer)
FailureKinds ==
  {"RemoteInvocationError", "TimeoutError", "ConnectionError",
   "JSONDecodeError", "AttributeError"}

\* C18: POST /invoke answers 500 for RemoteInvocationError, 504 for a
\* timeout, 502 for every other failure and {"status": "success",
\* "payload": result} on success; GET /remote/status answers 502 for every
\* failure, timeouts and remote invocation errors included.
C18_FrontDoorClassifies ==
  \A c \in Calls :
    /\ pc[c] # "done" => http[c] = NoResponse
    /\ pc[c] = "done" /\ op[c] = "invoke" =>
         /\ outcome[c].kind = "RemoteInvocationError" => http[c].code = 500
         /\ outcome[c].kind = "TimeoutError" => http[c].code = 504
         /\ outcome[c].kind \in FailureKinds
                               \ {"RemoteInvocationError", "TimeoutError"} =>
              http[c].code = 502
         /\ outcome[c].kind = "return" =>
              /\ http[c].code = 200
              /\ http[c].body = Map([status |-> Str(<<"success">>),
                                     payload |-> outcome[c].value])
    /\ pc[c] = "done" /\ op[c] = "fetch_status" =>
         /\ outcome[c].kind \in FailureKinds => http[c].code = 502
         /\ outcome[c].kind = "return" =>
              /\ http[c].code = 200
              /\ http[c].body = Map([status |-> fetched[c].value])

\* C18 witness: a timed-out call of POST /invoke was answered 504 and a
\* timed-out call of GET /remote/status was answered 502
C18_Witness ==
  \E c, d \in Calls :
    /\ op[c] = "invoke" /\ outcome[c].kind = "TimeoutError"
    /\ http[c].code = 504
    /\ op[d] = "fetch_status" /\ outcome[d].kind = "TimeoutError"
    /\ http[d].code = 502

\* C19: each single wait of the receive loop lasts at most the configured
\* timeout: a wait that began when the request was sent or when a frame was
\* discarded and saw no frame for the whole timeout ends the call with
\* TimeoutError at that point, not earlier and not later.
C19_EachWaitBounded ==
  /\ [](\A c \in Calls :
          /\ pc[c] = "receiving" => waited[c] <= config.timeout
          /\ pc[c] = "receiving" /\ waited[c] = config.timeout =>
                ENABLED TimeoutFire(c))
  /\ [][\A c \in Calls :
          /\ outcome[c] = NoOutcome /\ outcome'[c].kind = "TimeoutError" =>
                pc[c] = "receiving" /\ waited[c] = config.timeout
          /\ pc[c] = "receiving" /\ waited[c] = config.timeout =>
                \A d \in Calls : waited'[d] <= waited[d]]_vars

\* C19 witness: one call timed out in its first wait, a timeout after the
\* request was sent, and another timed out in a later wait, a timeout after
\* a frame was discarded
C19_Witness ==
  \E c, d \in Calls :
    /\ outcome[c].kind = "TimeoutError" /\ elapsed[c] = config.timeout
    /\ outcome[d].kind = "TimeoutError" /\ elapsed[d] = MaxElapsed

====
